---- MODULE Spec2Model ----
(***************************************************************************)
(* Model of the Script classes of js-reflection: the lazy loader           *)
(* (loadedScript), member resolution (getObject, getFunction, getClass)    *)
(* and invocation (callFunction, callNew), in the four variants of the     *)
(* repository:                                                             *)
(*   "load_script"   src/load/script.js                                    *)
(*   "load_helpers"  src/load/helpers.js                                   *)
(*   "lib_path"      src/lib/path/script.js                                *)
(*   "path"          src/path/script.js                                    *)
(* One Script instance is modelled.  An async method runs synchronously up *)
(* to its first suspension (action Call); the settlement of import() runs  *)
(* the .then / .catch callbacks (ImportSucceed, ImportFail); a suspended   *)
(* call continues in a later microtask (WakeReturn, LoadReturn, LoadThrow). *)
(* A run makes up to MaxCalls calls, each either loadedScript() or the one  *)
(* method call `named` that Init draws from Requests: the methods built on  *)
(* loadedScript() touch the instance's state only through it, and what     *)
(* they do afterwards is a function of the module they were given.         *)
(***************************************************************************)
EXTENDS Integers, Sequences, FiniteSets, TLC

\* ------------------------------------------------------------------ bounds
MaxCalls == 3
MaxImports == 2
MaxLen == 3
MaxModules == 2

\* ------------------------------------------------------------------ values
Variants == {"load_script", "load_helpers", "lib_path", "path"}
LoadVariants == {"load_script", "load_helpers"}

Undefined == "undefined"
ModuleRef == "module"

\* A string is a sequence of one-character strings.
DotJs == <<".", "j", "s">>
Chars == {"a", ".", "j", "s", " "}

RECURSIVE StringsUpTo(_)
StringsUpTo(n) ==
    IF n = 0 THEN {<<>>}
    ELSE LET shorter == StringsUpTo(n - 1)
         IN  shorter \cup {Append(s, ch) : s \in {t \in shorter : Len(t) = n - 1}, ch \in Chars}

\* A constructor argument: missing (undefined) or a string.
MissingArg == [missing |-> TRUE, str |-> <<>>]
StrArg(s) == [missing |-> FALSE, str |-> s]
CtorArgs == {MissingArg} \cup {StrArg(s) : s \in StringsUpTo(MaxLen) \cup {<<"a">> \o DotJs}}

\* JavaScript truthiness of a constructor argument: undefined and "" are falsy.
FalsyArg(a) == a.missing \/ a.str = <<>>

EndsWith(s, suffix) ==
    /\ Len(s) >= Len(suffix)
    /\ SubSeq(s, Len(s) - Len(suffix) + 1, Len(s)) = suffix

RECURSIVE TrimStart(_)
TrimStart(s) == IF s # <<>> /\ Head(s) = " " THEN TrimStart(Tail(s)) ELSE s

RECURSIVE TrimEnd(_)
TrimEnd(s) ==
    IF s # <<>> /\ s[Len(s)] = " " THEN TrimEnd(SubSeq(s, 1, Len(s) - 1)) ELSE s

Trim(s) == TrimEnd(TrimStart(s))

AddExtension(s) == IF EndsWith(s, DotJs) THEN s ELSE s \o DotJs

\* pathToFileURL(p).href: the file scheme (kept as one token), the path
\* resolved against the working directory (taken to be "/"), blanks
\* percent-encoded.
RECURSIVE PercentEncode(_)
PercentEncode(s) ==
    IF s = <<>> THEN <<>>
    ELSE (IF Head(s) = " " THEN <<"%", "2", "0">> ELSE <<Head(s)>>) \o PercentEncode(Tail(s))

PathToFileURL(p) == <<"file://", "/">> \o PercentEncode(p)

\* The identifier the constructor stores (#scriptPath / #scriptName).
StoredPath(v, s) ==
    CASE v \in LoadVariants -> PathToFileURL(AddExtension(s))
      [] v = "lib_path"     -> AddExtension(Trim(s))
      [] OTHER              -> AddExtension(s)

\* ------------------------------------------------------------------ errors
NoPath == <<>>
Error(kind, path, name) == [kind |-> kind, path |-> path, name |-> name]
NoError == Error("none", NoPath, "")
SCRIPT_PATH_NOT_DEFINED_ERROR == Error("Script path not defined", NoPath, "")
SCRIPT_NOT_DEFINED_ERROR == Error("Script not defined", NoPath, "")
OBJECT_NOT_DEFINED_ERROR == Error("Object not defined", NoPath, "")
OBJECT_NOT_FOUND_ERROR == "Object not found"
OBJECT_IS_NOT_A_FUNCTION_ERROR == "Object is not a function"
OBJECT_IS_NOT_A_CLASS_ERROR == "Object is not a class"
PROPERTY_NOT_FOUND_ERROR == "Property not found"
MISMATCHED_NUMBER_OF_PARAMETERS_ERROR == "Mismatched number of parameters"
\* The error import() rejects with; the code never inspects it.
ImportError == Error("import failed", NoPath, "")
\* Calling a class without new.
ClassCallTypeError == Error("TypeError: class constructor without new", NoPath, "")
BoomError == Error("boom", NoPath, "")
\* Calling a method the class does not define: script.m is not a function.
NoSuchMethodTypeError == Error("TypeError: is not a function", NoPath, "")

CtorError(v) ==
    IF v = "lib_path" THEN SCRIPT_NOT_DEFINED_ERROR ELSE SCRIPT_PATH_NOT_DEFINED_ERROR

\* ------------------------------------------------- the module being loaded
\* Values are named by strings.  The members of the module import() yields:
\* those of the test module (obj, func, Class) and further members that
\* exercise the falsy, throwing and argument-order cases.
Member(script, name) ==
    IF script # ModuleRef THEN Undefined
    ELSE CASE name = "obj"   -> "hello"
           [] name = "zero"  -> "num0"
           [] name = "func"  -> "fn_func"
           [] name = "first" -> "fn_first"
           [] name = "boom"  -> "fn_boom"
           [] name = "Class" -> "cls_Class"
           [] name = "Vector" -> "cls_Vector"
           [] name = "objMethod" -> "obj_objMethod"
           [] name = "a"     -> "obj_a"
           [] OTHER          -> Undefined

\* value[property]: objMethod has a method, a falsy count and a label;
\* a.b is an object with a property d and no property c.
Prop(value, property) ==
    CASE value = "obj_objMethod" /\ property = "method" -> "fn_method"
      [] value = "obj_objMethod" /\ property = "count"  -> "num0"
      [] value = "obj_objMethod" /\ property = "label"  -> "hello"
      [] value = "obj_a"  /\ property = "b" -> "obj_ab"
      [] value = "obj_ab" /\ property = "d" -> "hello"
      [] OTHER -> Undefined

\* typeof v
TypeOf(v) ==
    CASE v \in {"fn_func", "fn_first", "fn_boom", "fn_method",
                 "cls_Class", "cls_Vector"} -> "function"
      [] v = "num0"      -> "number"
      [] v = Undefined   -> "undefined"
      [] v \in {"inst_Class", "obj_objMethod", "obj_a", "obj_ab"} -> "object"
      [] v \in {"Vector{x:" \o x \o "}" : x \in {"array", Undefined, "7", "x"}} -> "object"
      [] OTHER           -> "string"

\* f.length: the number of parameters f (a class: its constructor) declares.
Length(f) ==
    CASE f \in {"fn_boom", "cls_Vector"} -> 1
      [] f = "fn_first" -> 2
      [] OTHER -> 0

\* Function.prototype.toString.call(v) starts with "class ".
SourceStartsWithClass(v) == v \in {"cls_Class", "cls_Vector"}

\* JavaScript truthiness: undefined, 0 and "" are falsy.
Truthy(v) == v \notin {Undefined, "num0", ""}

\* src/load/helpers.js
isFunction(obj) == TypeOf(obj) = "function"
\* Mutant: every function passes for a class.
isClass_AnyFunction(obj) == TypeOf(obj) = "function"

isClass(obj) == TypeOf(obj) = "function" /\ SourceStartsWithClass(obj)

\* An argument as the callee receives it: a single value, or an array.
Atom(x) == [isArray |-> FALSE, items |-> <<x>>]
ArrayOf(xs) == [isArray |-> TRUE, items |-> xs]
\* f(...parameters): every parameter is an argument of its own.
Spread(parameters) == [i \in 1..Len(parameters) |-> Atom(parameters[i])]
ArgValue(a) == IF a.isArray THEN "array" ELSE a.items[1]

Outcome(val, err) == [val |-> val, err |-> err]
Returned(val) == Outcome(val, NoError)
Threw(err) == Outcome(Undefined, err)

\* What a call of (or new on) value f with these arguments produces.
Invoke(f, how, args) ==
    CASE f = "fn_func"  -> Returned("hello")
      [] f = "fn_first" -> Returned(IF Len(args) >= 1 THEN ArgValue(args[1]) ELSE Undefined)
      [] f = "fn_boom"  -> Threw(BoomError)
      [] f = "fn_method" -> Returned("hello")
      [] f = "cls_Class" /\ how = "new" -> Returned("inst_Class")
      \* class Vector { constructor(x) { this.x = x } }
      [] f = "cls_Vector" /\ how = "new" ->
            Returned("Vector{x:"
                     \o (IF Len(args) >= 1 THEN ArgValue(args[1]) ELSE Undefined) \o "}")
      [] f \in {"cls_Class", "cls_Vector"} -> Threw(ClassCallTypeError)
      [] OTHER -> Threw(Error("TypeError: not a function", NoPath, ""))

Invocation(f, how, args) == [callee |-> f, how |-> how, args |-> args]

\* ------------------------------------------------ resolution and invocation
\* (src/load/script.js and src/load/helpers.js; the same text in both)
\* Mutant: only "" is rejected, a missing name is let through.
FalsyName_OnlyEmpty(n) == n = ""

\* A name argument is falsy when it is missing (undefined) or "".
FalsyName(n) == n = Undefined \/ n = ""

\* What a method produces once loadedScript() has given it `script`:
\* out is what it returns or throws, inv the invocations it made.
Result(out, inv) == [out |-> out, inv |-> inv]

\* Mutant: only an absent member is reported, a falsy one is returned.
getObject_AbsentOnly(script, path, objectName) ==
    IF Member(script, objectName) = Undefined
    THEN Threw(Error(OBJECT_NOT_FOUND_ERROR, path, objectName))
    ELSE Returned(Member(script, objectName))

getObject(script, path, objectName) ==
    IF ~Truthy(Member(script, objectName))
    THEN Threw(Error(OBJECT_NOT_FOUND_ERROR, path, objectName))
    ELSE Returned(Member(script, objectName))

\* Mutant: whatever getObject found is returned as the function.
getFunction_NoTypeCheck(script, path, functionName) ==
    getObject(script, path, functionName)

getFunction(script, path, functionName) ==
    LET object == getObject(script, path, functionName)
    IN  IF object.err # NoError THEN object
        ELSE IF ~isFunction(object.val)
             THEN Threw(Error(OBJECT_IS_NOT_A_FUNCTION_ERROR, path, functionName))
             ELSE object

getClass(script, path, className) ==
    LET object == getObject(script, path, className)
    IN  IF object.err # NoError THEN object
        ELSE IF ~isClass(object.val)
             THEN Threw(Error(OBJECT_IS_NOT_A_CLASS_ERROR, path, className))
             ELSE object

\* Mutant: the parameters are passed as one array.
CallArguments_AsArray(parameters) == <<ArrayOf(parameters)>>

\* return fn(...parameters)
CallArguments(parameters) == Spread(parameters)

callFunction(script, path, functionName, parameters) ==
    LET fn == getFunction(script, path, functionName)
    IN  IF fn.err # NoError THEN Result(fn, <<>>)
        ELSE Result(Invoke(fn.val, "call", CallArguments(parameters)),
                    <<Invocation(fn.val, "call", CallArguments(parameters))>>)

\* return new Class(parameters): the array itself is the one argument
NewArguments(parameters) == <<ArrayOf(parameters)>>

callNew(script, path, className, parameters) ==
    LET Class == getClass(script, path, className)
    IN  IF Class.err # NoError THEN Result(Class, <<>>)
        ELSE Result(Invoke(Class.val, "new", NewArguments(parameters)),
                    <<Invocation(Class.val, "new", NewArguments(parameters))>>)

\* objectName + "." + propertyName
Dotted(objectName, propertyName) == objectName \o "." \o propertyName

\* helpers.js: a falsy or absent property of the resolved object is reported.
getObjectProperty(script, path, objectName, propertyName) ==
    LET object == getObject(script, path, objectName)
    IN  IF object.err # NoError THEN object
        ELSE IF ~Truthy(Prop(object.val, propertyName))
             THEN Threw(Error(PROPERTY_NOT_FOUND_ERROR, path,
                              Dotted(objectName, propertyName)))
             ELSE Returned(Prop(object.val, propertyName))

\* Mutant: a missing segment does not end the walk.
RECURSIVE WalkProperties_NoEarlyExit(_, _, _, _)
WalkProperties_NoEarlyExit(object, path, objectName, propertyNames) ==
    IF propertyNames = <<>> THEN Returned(object)
    ELSE WalkProperties_NoEarlyExit(Prop(object, Head(propertyNames)), path, objectName,
                                    Tail(propertyNames))

\* The for loop of getNestedObjectProperty from the value `object` on: the
\* message of a missing segment is built from objectName and that segment.
RECURSIVE WalkProperties(_, _, _, _)
WalkProperties(object, path, objectName, propertyNames) ==
    IF propertyNames = <<>> THEN Returned(object)
    ELSE IF ~Truthy(Prop(object, Head(propertyNames)))
         THEN Threw(Error(PROPERTY_NOT_FOUND_ERROR, path,
                          Dotted(objectName, Head(propertyNames))))
         ELSE WalkProperties(Prop(object, Head(propertyNames)), path, objectName,
                             Tail(propertyNames))

\* The property names the loop reads (object[propertyName]), in order: the
\* throw on a missing segment leaves the loop.
RECURSIVE WalkReads(_, _)
WalkReads(object, propertyNames) ==
    IF propertyNames = <<>> THEN <<>>
    ELSE <<Head(propertyNames)>> \o
         (IF ~Truthy(Prop(object, Head(propertyNames))) THEN <<>>
          ELSE WalkReads(Prop(object, Head(propertyNames)), Tail(propertyNames)))

\* The property names a getNestedObjectProperty call reads off the object.
PropertyReads(req, script) ==
    IF req.op = "getNestedObjectProperty" /\ Truthy(Member(script, req.name))
    THEN WalkReads(Member(script, req.name), req.props)
    ELSE <<>>

getNestedObjectProperty(script, path, objectName, propertyNames) ==
    LET object == getObject(script, path, objectName)
    IN  IF object.err # NoError THEN object
        ELSE WalkProperties(object.val, path, objectName, propertyNames)

\* Mutant: the number of parameters is never compared.
ArityMismatch_Never(f, parameters) == FALSE

\* fn.length !== parameters.length
ArityMismatch(f, parameters) == Length(f) # Len(parameters)

safeCallFunction(script, path, functionName, parameters) ==
    LET fn == getFunction(script, path, functionName)
    IN  IF fn.err # NoError THEN Result(fn, <<>>)
        ELSE IF ArityMismatch(fn.val, parameters)
        THEN Result(Threw(Error(MISMATCHED_NUMBER_OF_PARAMETERS_ERROR, path,
                                functionName)), <<>>)
        ELSE Result(Invoke(fn.val, "call", Spread(parameters)),
                    <<Invocation(fn.val, "call", Spread(parameters))>>)

safeCallNew(script, path, className, parameters) ==
    LET Class == getClass(script, path, className)
    IN  IF Class.err # NoError THEN Result(Class, <<>>)
        ELSE IF ArityMismatch(Class.val, parameters)
        THEN Result(Threw(Error(MISMATCHED_NUMBER_OF_PARAMETERS_ERROR, path,
                                className)), <<>>)
        ELSE Result(Invoke(Class.val, "new", NewArguments(parameters)),
                    <<Invocation(Class.val, "new", NewArguments(parameters))>>)

\* The method of callObjectMethod: script.js reads object[methodName] as it
\* is, helpers.js goes through getObjectProperty.
ObjectMethod(v, script, path, objectName, methodName) ==
    IF v = "load_helpers"
    THEN getObjectProperty(script, path, objectName, methodName)
    ELSE LET object == getObject(script, path, objectName)
         IN  IF object.err # NoError THEN object
             ELSE Returned(Prop(object.val, methodName))

callObjectMethod(v, script, path, objectName, methodName, parameters) ==
    LET method == ObjectMethod(v, script, path, objectName, methodName)
    IN  IF method.err # NoError THEN Result(method, <<>>)
        ELSE IF ~isFunction(method.val)
        THEN Result(Threw(Error(OBJECT_IS_NOT_A_FUNCTION_ERROR, path,
                                Dotted(objectName, methodName))), <<>>)
        ELSE Result(Invoke(method.val, "call", Spread(parameters)),
                    <<Invocation(method.val, "call", Spread(parameters))>>)

safeCallObjectMethod(script, path, objectName, methodName, parameters) ==
    LET method == getObjectProperty(script, path, objectName, methodName)
    IN  IF method.err # NoError THEN Result(method, <<>>)
        ELSE IF ~isFunction(method.val)
        THEN Result(Threw(Error(OBJECT_IS_NOT_A_FUNCTION_ERROR, path,
                                Dotted(objectName, methodName))), <<>>)
        ELSE IF ArityMismatch(method.val, parameters)
        THEN Result(Threw(Error(MISMATCHED_NUMBER_OF_PARAMETERS_ERROR, path,
                                Dotted(objectName, methodName))), <<>>)
        ELSE Result(Invoke(method.val, "call", Spread(parameters)),
                    <<Invocation(method.val, "call", Spread(parameters))>>)

\* ---------------------------------------------------------------- requests
\* A method call: the method, its name argument, the property names that
\* follow it (getObjectProperty, getNestedObjectProperty, callObjectMethod)
\* and the rest parameters.
PropRequest(op, name, props, args) ==
    [op |-> op, name |-> name, props |-> props, args |-> args]
Request(op, name, args) == PropRequest(op, name, <<>>, args)
NoRequest == Request("none", "", <<>>)
LoadedScriptRequest == Request("loadedScript", "", <<>>)

\* The methods that resolve a name through getObject.
NamedOps ==
    {"getObject", "getFunction", "getClass", "callFunction", "callNew",
     "callObjectMethod", "getObjectProperty", "getNestedObjectProperty",
     "safeCallFunction", "safeCallNew", "safeCallObjectMethod"}

\* The methods each class defines besides loadedScript.
Methods(v) ==
    CASE v = "load_script" ->
            {"loadedScript", "getObject", "getFunction", "getClass", "callFunction",
             "callNew", "callObjectMethod"}
      [] v = "load_helpers" -> {"loadedScript"} \cup NamedOps
      [] OTHER -> {"loadedScript"}

LoadRequests ==
    {LoadedScriptRequest}
    \cup {Request("getObject", n, <<>>) : n \in {Undefined, "", "obj", "zero", "func", "missing"}}
    \cup {Request("getFunction", n, <<>>) : n \in {"", "obj", "func"}}
    \cup {Request("getClass", n, <<>>) : n \in {"", "func", "Class"}}
    \cup {Request("callFunction", "first", a) : a \in {<<"x", "y">>, <<"y", "x">>}}
    \cup {Request("callFunction", n, <<"x">>) : n \in {"", "func", "boom", "obj", "Class"}}
    \cup {Request("callNew", n, <<"x">>) : n \in {"", "Class"}}
    \cup {Request("callNew", "Vector", a) : a \in {<<"7">>, <<"7", "8">>}}
    \cup {Request(op, "zero", <<>>) : op \in {"getFunction", "callFunction"}}
    \cup {Request("getClass", n, <<>>) : n \in {"zero", "obj", "missing"}}
    \cup {Request("callNew", n, <<>>) : n \in {"zero", "obj", "func"}}
    \cup {PropRequest("callObjectMethod", "objMethod", <<m>>, <<>>) :
                m \in {"method", "count", "label", "missing"}}
    \cup {PropRequest("callObjectMethod", n, <<"method">>, <<>>) : n \in {"", "missing"}}
    \* the call of src/load/script.test.js, lines 46-53
    \cup {Request("getClassMethods", "Class", <<>>)}

\* The calls of the methods only src/load/helpers.js has.
HelpersRequests ==
    {PropRequest("getObjectProperty", "objMethod", <<m>>, <<>>) : m \in {"label", "count"}}
    \cup {PropRequest("getNestedObjectProperty", "a", ps, <<>>) :
                ps \in {<<>>, <<"c">>, <<"b">>, <<"b", "c">>, <<"b", "d">>, <<"c", "b">>}}
    \cup {Request("safeCallFunction", "first", a) : a \in {<<"x">>, <<"x", "y">>}}
    \cup {Request("safeCallFunction", "boom", a) : a \in {<<>>, <<"x">>}}
    \cup {Request("safeCallFunction", "obj", <<>>)}
    \cup {Request("safeCallNew", "Vector", a) : a \in {<<>>, <<"7">>}}
    \cup {Request("safeCallNew", "Class", a) : a \in {<<>>, <<"x">>}}
    \cup {PropRequest("safeCallObjectMethod", "objMethod", <<m>>, a) :
                m \in {"method", "label"}, a \in {<<>>, <<"x">>}}

Requests(v) ==
    CASE v = "load_script"  -> LoadRequests
      [] v = "load_helpers" -> LoadRequests \cup HelpersRequests
      [] OTHER              -> {LoadedScriptRequest}

\* The rest of a method after its `await this.loadedScript()` gave `script`.
Finish(v, req, script, path) ==
    CASE req.op = "getObject"    -> Result(getObject(script, path, req.name), <<>>)
      [] req.op = "getFunction"  -> Result(getFunction(script, path, req.name), <<>>)
      [] req.op = "getClass"     -> Result(getClass(script, path, req.name), <<>>)
      [] req.op = "callFunction" -> callFunction(script, path, req.name, req.args)
      [] req.op = "callNew"      -> callNew(script, path, req.name, req.args)
      [] req.op = "callObjectMethod" ->
            callObjectMethod(v, script, path, req.name, req.props[1], req.args)
      [] req.op = "getObjectProperty" ->
            Result(getObjectProperty(script, path, req.name, req.props[1]), <<>>)
      [] req.op = "getNestedObjectProperty" ->
            Result(getNestedObjectProperty(script, path, req.name, req.props), <<>>)
      [] req.op = "safeCallFunction" ->
            safeCallFunction(script, path, req.name, req.args)
      [] req.op = "safeCallNew" -> safeCallNew(script, path, req.name, req.args)
      [] req.op = "safeCallObjectMethod" ->
            safeCallObjectMethod(script, path, req.name, req.props[1], req.args)
      [] OTHER                   -> Result(Returned(script), <<>>)

\* ------------------------------------------------------------------- state
VARIABLES
    variant,        \* which Script class the instance is of
    named,          \* the method call this run makes, besides loadedScript() calls
    inst,           \* "new" (constructor not yet run), "constructed", "threw"
    ctorArg,        \* the constructor's argument
    ctorErr,        \* what the constructor threw
    scriptPath,     \* #scriptPath (#scriptName in lib_path)
    loadingScript,  \* #loadingScript: undefined, null, or the promise of an import
    loadedScript,   \* #loadedScript: undefined or the module
    listeners,      \* the calls whose 'load' listener is registered on #eventEmitter
    importCount,    \* the number of import() invocations so far
    imports,        \* the state of each import() promise
    calls,          \* the method calls made on the instance
    ctorModules,    \* the constructor's rest arguments (lib_path)
    nestedModules,  \* #nestedModules
    fullPath,       \* #fullPath: <<>> while undefined, else the memoized path
    importPath,     \* the specifier each import() invocation was given
    removed,        \* the number of removeNestedModule() calls made
    moduleOp        \* the last hasNestedModule(), nestedModule or removeNestedModule()

vars == <<variant, named, inst, ctorArg, ctorErr, scriptPath, loadingScript, loadedScript,
          listeners, importCount, imports, calls, ctorModules, nestedModules, fullPath,
          importPath, removed, moduleOp>>
opVars == <<removed, moduleOp>>
ctorVars == <<variant, named, inst, ctorArg, ctorErr, scriptPath, ctorModules>>
pathVars == <<nestedModules, fullPath>>

CallIds == 1..MaxCalls
ImportIds == 1..MaxImports

NotLoading(state) == [state |-> state, att |-> 0]
LoadingPromise(a) == [state |-> "promise", att |-> a]
LoadingTruthy == loadingScript.state = "promise"

IdleCall ==
    [req |-> NoRequest, pc |-> "idle", att |-> 0, seen |-> 0, got |-> Undefined,
     res |-> Undefined, err |-> NoError, inv |-> <<>>, reads |-> <<>>]

\* The call has settled with this result.
Settled(call, r) ==
    [call EXCEPT !.pc = IF r.out.err = NoError THEN "returned" ELSE "threw",
                 !.res = r.out.val, !.err = r.out.err, !.inv = r.inv]

\* loadedScript() gave `script` to the method of this call.
Completed(call, script) ==
    [Settled(call, Finish(variant, call.req, script, scriptPath))
        EXCEPT !.reads = PropertyReads(call.req, script)]
\* loadedScript() threw: every method lets the error through.
Failed(call, error) == Settled(call, Result(Threw(error), <<>>))

\* The i-th module name handed to the constructor: "m", "mm", ...
ModuleName(i) == [j \in 1..i |-> "m"]
ModuleLists == {[i \in 1..k |-> ModuleName(i)] : k \in 0..MaxModules}

\* #nestedModules: the field is assigned by the constructor of lib_path only.
NoModules == [defined |-> FALSE, list |-> <<>>]
ModulesField(v, modules) ==
    IF v = "lib_path" THEN [defined |-> TRUE, list |-> modules] ELSE NoModules

\* Array.prototype.join
RECURSIVE Join(_, _)
Join(parts, sep) ==
    IF parts = <<>> THEN <<>>
    ELSE IF Len(parts) = 1 THEN parts[1]
    ELSE parts[1] \o <<sep>> \o Join(Tail(parts), sep)

\* [this.#nestedModules.join('/'), this.#scriptName].join('/')
ComputedFullPath(modules, scriptName) == Join(<<Join(modules, "/"), scriptName>>, "/")

\* get fullPath(): the memoized path if there is one, else the computed one.
FullPathGetter ==
    IF fullPath # <<>> THEN fullPath ELSE ComputedFullPath(nestedModules.list, scriptPath)

\* The specifier loadedScript() hands to import().
ImportSpecifier(v) == IF v = "lib_path" THEN FullPathGetter ELSE scriptPath

\* Reading a property of #nestedModules while it is undefined.
UndefinedTypeError == Error("TypeError: cannot read properties of undefined", NoPath, "")

\* A nested-module operation and how it ended; `mod` is the module name a
\* nestedModule read returned.
ModuleOp(op, out, mod) == [op |-> op, out |-> out, mod |-> mod]
NoModuleOp == ModuleOp("none", Returned(Undefined), <<>>)

\* return this.#nestedModules.length > 0
hasNestedModule(modules) ==
    IF ~modules.defined THEN Threw(UndefinedTypeError)
    ELSE Returned(IF Len(modules.list) > 0 THEN "true" ELSE "false")

\* get nestedModule(): null without a module, else this.#nestedModules[0]
nestedModule(modules) ==
    LET has == hasNestedModule(modules)
    IN  IF has.err # NoError THEN ModuleOp("nestedModule", has, <<>>)
        ELSE IF has.val = "false" THEN ModuleOp("nestedModule", Returned("null"), <<>>)
        ELSE ModuleOp("nestedModule", Returned("module"), modules.list[1])

FreshState ==
    /\ removed = 0
    /\ moduleOp = NoModuleOp
    /\ fullPath = <<>>
    /\ importPath = [a \in ImportIds |-> <<>>]
    /\ loadingScript = NotLoading("undefined")
    /\ loadedScript = Undefined
    /\ listeners = {}
    /\ importCount = 0
    /\ imports = [a \in ImportIds |-> "none"]
    /\ calls = [c \in CallIds |-> IdleCall]

\* new Script("a") has returned.
Init ==
    /\ variant \in Variants
    /\ named \in Requests(variant)
    /\ inst = "constructed"
    /\ ctorArg = StrArg(<<"a">>)
    /\ ctorErr = NoError
    /\ scriptPath = StoredPath(variant, <<"a">>)
    /\ ctorModules \in (IF variant = "lib_path" THEN ModuleLists ELSE {<<>>})
    /\ nestedModules = ModulesField(variant, ctorModules)
    /\ FreshState

\* A Script whose constructor has not run yet, with any argument.
InitCtor ==
    /\ variant \in Variants
    /\ named = LoadedScriptRequest
    /\ inst = "new"
    /\ ctorArg \in CtorArgs
    /\ ctorErr = NoError
    /\ scriptPath = <<>>
    /\ ctorModules = <<>>
    /\ nestedModules = NoModules
    /\ FreshState

\* ----------------------------------------------------------------- actions
\* Mutant: only a missing argument is rejected, "" is let through.
ConstructorThrows_OnlyMissing(arg) == arg.missing

\* constructor(scriptPath): throws on a falsy argument, else stores the path.
ConstructorThrows(arg) == FalsyArg(arg)

Construct ==
    /\ inst = "new"
    /\ IF ConstructorThrows(ctorArg)
       THEN /\ inst' = "threw"
            /\ ctorErr' = CtorError(variant)
            /\ UNCHANGED <<scriptPath, nestedModules>>
       ELSE /\ inst' = "constructed"
            /\ scriptPath' = StoredPath(variant, ctorArg.str)
            /\ nestedModules' = ModulesField(variant, ctorModules)
            /\ UNCHANGED ctorErr
    /\ UNCHANGED <<variant, named, ctorArg, loadingScript, loadedScript, listeners,
                   importCount, imports, calls, ctorModules, fullPath, importPath,
                   opVars>>

\* Mutant: the cached module is never recognised.
AlreadyLoaded_Never(script) == FALSE

\* if (this.#loadedScript) return this.#loadedScript
AlreadyLoaded(script) == Truthy(script)

\* Mutant: no variant waits for the load in flight.
WaitsWhenLoading_Never(v) == FALSE

\* The "already loading" branch suspends the caller on the 'load' event;
\* in lib_path it only defines waitForEvent and falls through.
WaitsWhenLoading(v) == v # "lib_path"

\* The call that starts the import awaits #loadingScript;
\* in path it awaits #loadedScript, which is not a promise.
AwaitsImport(v) == v # "path"

\* What a 'load' listener resolves its promise with.
ResolvedWith(v, script) == IF v = "load_helpers" THEN Undefined ELSE script

\* What a woken waiter returns: the value its promise resolved with (path),
\* or #loadedScript as it is when the waiter continues.
WaiterScript(v, call) == IF v = "path" THEN call.got ELSE loadedScript

\* A method is called: it runs up to its first suspension.
Call(c, req) ==
    /\ inst = "constructed"
    /\ calls[c].pc = "idle"
    /\ \A d \in 1..(c - 1) : calls[d].pc # "idle"
    /\ req \in {LoadedScriptRequest, named}
    /\ LET call == [IdleCall EXCEPT !.req = req]
           n == importCount + 1
       IN  IF req.op \notin Methods(variant)
           THEN \* the instance has no such method: the call expression throws
                /\ calls' = [calls EXCEPT ![c] = Failed(call, NoSuchMethodTypeError)]
                /\ UNCHANGED <<loadingScript, listeners, importCount, imports, fullPath,
                               importPath>>
           ELSE IF req.op \in NamedOps /\ FalsyName(req.name)
           THEN \* if (!objectName) throw OBJECT_NOT_DEFINED_ERROR
                /\ calls' = [calls EXCEPT ![c] = Failed(call, OBJECT_NOT_DEFINED_ERROR)]
                /\ UNCHANGED <<loadingScript, listeners, importCount, imports, fullPath,
                               importPath>>
           ELSE IF AlreadyLoaded(loadedScript)
           THEN \* the cached module is returned at once
                /\ calls' = [calls EXCEPT ![c] = Completed(call, loadedScript)]
                /\ UNCHANGED <<loadingScript, listeners, importCount, imports, fullPath,
                               importPath>>
           ELSE IF LoadingTruthy /\ WaitsWhenLoading(variant)
           THEN \* this.#eventEmitter.on('load', ...) and suspend
                /\ listeners' = listeners \cup {c}
                /\ calls' = [calls EXCEPT ![c] =
                                [call EXCEPT !.pc = "waiting", !.seen = loadingScript.att]]
                /\ UNCHANGED <<loadingScript, importCount, imports, fullPath, importPath>>
           ELSE \* this.#loadingScript = import(...).then(...).catch(...)
                /\ importCount < MaxImports
                /\ importCount' = n
                /\ imports' = [imports EXCEPT ![n] = "pending"]
                /\ importPath' = [importPath EXCEPT ![n] = ImportSpecifier(variant)]
                /\ fullPath' = IF variant = "lib_path" THEN FullPathGetter ELSE fullPath
                /\ loadingScript' = LoadingPromise(n)
                /\ calls' = [calls EXCEPT ![c] =
                                IF AwaitsImport(variant)
                                THEN [call EXCEPT !.pc = "awaiting", !.att = n]
                                ELSE Completed([call EXCEPT !.att = n], loadedScript)]
                /\ UNCHANGED listeners
    /\ UNCHANGED <<ctorVars, loadedScript, nestedModules, opVars>>

\* emit('load'): every registered listener resolves its promise.
Emit(cs, script) ==
    [c \in CallIds |->
        IF c \in listeners /\ cs[c].pc = "waiting"
        THEN [cs[c] EXCEPT !.pc = "woken", !.got = ResolvedWith(variant, script)]
        ELSE cs[c]]

\* Listeners registered with on() stay registered after an emit.
ListenersAfterEmit(ls) == ls

\* import() fulfils: the .then callback stores the module and emits 'load'.
ImportSucceed(a) ==
    /\ imports[a] = "pending"
    /\ imports' = [imports EXCEPT ![a] = "fulfilled"]
    /\ loadedScript' = ModuleRef
    /\ calls' = Emit(calls, ModuleRef)
    /\ listeners' = ListenersAfterEmit(listeners)
    /\ UNCHANGED <<ctorVars, pathVars, opVars, importPath, loadingScript, importCount>>

\* Mutant: the failed promise is left in #loadingScript.
LoadingAfterFailure_Kept(ls) == ls

\* The .catch callback: this.#loadingScript = null.
LoadingAfterFailure(ls) == NotLoading("null")

\* import() rejects: the .catch callback clears #loadingScript and rethrows.
ImportFail(a) ==
    /\ imports[a] = "pending"
    /\ imports' = [imports EXCEPT ![a] = "rejected"]
    /\ loadingScript' = LoadingAfterFailure(loadingScript)
    /\ UNCHANGED <<ctorVars, pathVars, opVars, importPath, loadedScript, listeners,
                   importCount, calls>>

\* A woken waiter continues and returns.
WakeReturn(c) ==
    /\ calls[c].pc = "woken"
    /\ calls' = [calls EXCEPT ![c] = Completed(calls[c], WaiterScript(variant, calls[c]))]
    /\ UNCHANGED <<ctorVars, pathVars, opVars, importPath, loadingScript, loadedScript,
                   listeners, importCount, imports>>

\* await this.#loadingScript gave the module: return this.#loadedScript.
LoadReturn(c) ==
    /\ calls[c].pc = "awaiting"
    /\ calls[c].att \in ImportIds
    /\ imports[calls[c].att] = "fulfilled"
    /\ calls' = [calls EXCEPT ![c] = Completed(calls[c], loadedScript)]
    /\ UNCHANGED <<ctorVars, pathVars, opVars, importPath, loadingScript, loadedScript,
                   listeners, importCount, imports>>

\* Mutant: the import's error is wrapped with the script path.
LoadError_Wrapped(importError) == Error("LoadFailed", scriptPath, importError.kind)

\* What the call that started a failed import throws: the import's error.
LoadError(importError) == importError

\* await this.#loadingScript threw.
LoadThrow(c) ==
    /\ calls[c].pc = "awaiting"
    /\ calls[c].att \in ImportIds
    /\ imports[calls[c].att] = "rejected"
    /\ calls' = [calls EXCEPT ![c] = Failed(calls[c], LoadError(ImportError))]
    /\ UNCHANGED <<ctorVars, pathVars, opVars, importPath, loadingScript, loadedScript,
                   listeners, importCount, imports>>

\* Mutant: the whole list is dropped.
Shift_DropsAll(list) == <<>>

\* this.#nestedModules.shift()
Shift(list) == IF list = <<>> THEN <<>> ELSE Tail(list)

\* The classes that define hasNestedModule, nestedModule, removeNestedModule.
HasModuleMethods(v) == v \in {"lib_path", "path"}

\* removeNestedModule(): shifts #nestedModules, or throws when the field was
\* never assigned.
RemoveNestedModule ==
    /\ inst = "constructed"
    /\ HasModuleMethods(variant)
    /\ removed <= MaxModules
    /\ removed' = removed + 1
    /\ IF nestedModules.defined
       THEN /\ nestedModules' = [nestedModules EXCEPT !.list = Shift(@)]
            /\ moduleOp' = ModuleOp("removeNestedModule", Returned(Undefined), <<>>)
       ELSE /\ moduleOp' = ModuleOp("removeNestedModule", Threw(UndefinedTypeError), <<>>)
            /\ UNCHANGED nestedModules
    /\ UNCHANGED <<ctorVars, fullPath, importPath, loadingScript, loadedScript, listeners,
                   importCount, imports, calls>>

\* hasNestedModule() is called.
HasNestedModule ==
    /\ inst = "constructed"
    /\ HasModuleMethods(variant)
    /\ moduleOp' = ModuleOp("hasNestedModule", hasNestedModule(nestedModules), <<>>)
    /\ UNCHANGED <<ctorVars, pathVars, removed, importPath, loadingScript, loadedScript,
                   listeners, importCount, imports, calls>>

\* The nestedModule getter is read.
NestedModule ==
    /\ inst = "constructed"
    /\ HasModuleMethods(variant)
    /\ moduleOp' = nestedModule(nestedModules)
    /\ UNCHANGED <<ctorVars, pathVars, removed, importPath, loadingScript, loadedScript,
                   listeners, importCount, imports, calls>>

\* The fullPath getter is read: the path is memoized.
ReadFullPath ==
    /\ inst = "constructed"
    /\ variant = "lib_path"
    /\ fullPath' = FullPathGetter
    /\ UNCHANGED <<ctorVars, opVars, nestedModules, importPath, loadingScript, loadedScript,
                   listeners, importCount, imports, calls>>

Next ==
    \/ \E c \in CallIds : \E req \in {LoadedScriptRequest, named} : Call(c, req)
    \/ RemoveNestedModule
    \/ HasNestedModule
    \/ NestedModule
    \/ ReadFullPath
    \/ \E a \in ImportIds : ImportSucceed(a)
    \/ \E a \in ImportIds : ImportFail(a)
    \/ \E c \in CallIds : WakeReturn(c)
    \/ \E c \in CallIds : LoadReturn(c)
    \/ \E c \in CallIds : LoadThrow(c)

Spec == Init /\ [][Next]_vars

\* Construction from any argument, then a first loadedScript() and its import.
NextCtor ==
    \/ Construct
    \/ Call(1, LoadedScriptRequest)
    \/ \E a \in ImportIds : ImportSucceed(a)
    \/ \E a \in ImportIds : ImportFail(a)
    \/ LoadReturn(1)
    \/ LoadThrow(1)

SpecCtor == InitCtor /\ [][NextCtor]_vars

\* ================================================================== claims
IsLoadVariant == variant \in LoadVariants
Issued(c) == calls[c].pc # "idle"
HasSettled(c) == calls[c].pc \in {"returned", "threw"}
\* The call got past the name check, into loadedScript().
ReachedLoad(c) ==
    /\ Issued(c)
    /\ calls[c].req.op \in Methods(variant)
    /\ ~(calls[c].req.op \in NamedOps /\ calls[c].req.name \in {Undefined, ""})
PendingImports == {a \in ImportIds : imports[a] = "pending"}
\* Nothing is left to run unless a new call is made.
Quiescent ==
    /\ PendingImports = {}
    /\ \A c \in CallIds : calls[c].pc \notin {"woken", "awaiting"}

\* C1 (single-flight, src/load variants): when the first import of a fresh
\* instance succeeds, import was invoked exactly once, every call that
\* reached loadedScript() has been served by it (none is left suspended on
\* the event, none failed) and every loadedScript() call that has returned
\* returned the loaded module.
C1_SingleFlight ==
    (IsLoadVariant /\ imports[1] = "fulfilled") =>
        /\ importCount = 1
        /\ loadedScript = ModuleRef
        /\ \A c \in CallIds :
              ReachedLoad(c) =>
                 /\ calls[c].pc \in {"woken", "awaiting", "returned", "threw"}
                 /\ calls[c].err # ImportError
                 /\ (calls[c].req.op = "loadedScript" /\ calls[c].pc = "returned")
                        => calls[c].res = ModuleRef

\* Three loadedScript() calls were made before the import settled, and all
\* three have returned.
C1_Witness ==
    /\ IsLoadVariant
    /\ imports[1] = "fulfilled"
    /\ calls[1].att = 1
    /\ \A c \in {2, 3} : calls[c].seen = 1
    /\ \A c \in {1, 2, 3} :
          calls[c].req.op = "loadedScript" /\ calls[c].pc = "returned"

\* C2 (lib_path): at most one import is in flight at any time.
C2_AtMostOneImportInFlight ==
    variant = "lib_path" => Cardinality(PendingImports) <= 1

\* C3 (path): every loadedScript() call that returns, returns the module.
C3_ReturnsLoadedModule ==
    variant = "path" =>
        \A c \in CallIds :
            (calls[c].req.op = "loadedScript" /\ calls[c].pc = "returned")
                => calls[c].res = ModuleRef

\* C4 (failure fan-out, src/load variants): a call that was suspended on an
\* import that failed never returns a value, and once nothing is left to run
\* it has failed with the load error.
C4_FailureFanOut ==
    IsLoadVariant =>
        \A c \in CallIds :
            (calls[c].seen \in ImportIds /\ imports[calls[c].seen] = "rejected") =>
                /\ calls[c].pc # "returned"
                /\ Quiescent => (calls[c].pc = "threw" /\ calls[c].err = ImportError)

\* C5 (retry after failure, src/load variants): the failure of an import
\* leaves no pending load and no loaded module and invokes no import; a call
\* that enters loadedScript() in that state invokes import exactly once; a
\* call that fails invokes none.
C5_RetryAfterFailure ==
    [][IsLoadVariant =>
        /\ \A a \in ImportIds :
              (imports[a] = "pending" /\ imports'[a] = "rejected") =>
                 /\ loadingScript'.state # "promise"
                 /\ loadedScript' = Undefined
                 /\ \A b \in ImportIds : imports'[b] # "pending"
                 /\ importCount' = importCount
        /\ \A c \in CallIds :
              (/\ calls[c].pc = "idle"
               /\ calls'[c].pc # "idle"
               /\ calls'[c].req.op \in Methods(variant)
               /\ ~(calls'[c].req.op \in NamedOps /\ calls'[c].req.name \in {Undefined, ""})
               /\ loadingScript.state # "promise"
               /\ loadedScript = Undefined) =>
                 /\ importCount' = importCount + 1
                 /\ calls'[c].att = importCount'
                 /\ imports'[importCount'] = "pending"
                 /\ \A b \in ImportIds \ {importCount'} : imports'[b] = imports[b]
        /\ \A c \in CallIds :
              (calls[c].pc # "threw" /\ calls'[c].pc = "threw") =>
                 /\ importCount' = importCount
                 /\ imports' = imports
      ]_vars

\* The first import failed, its call has thrown, and the next call has
\* started the second import.
C5_Witness ==
    /\ IsLoadVariant
    /\ imports[1] = "rejected"
    /\ calls[1].pc = "threw" /\ calls[1].err = ImportError /\ calls[1].att = 1
    /\ calls[2].att = 2
    /\ imports[2] = "pending"
    /\ importCount = 2

\* C6 (loaded is terminal, src/load variants): once the module is loaded no
\* step changes #loadedScript or invokes import, a loadedScript() or
\* getObject(name) call made then settles at once (loadedScript() with the
\* module), and two getObject(name) calls served by the module agree.
C6_LoadedIsTerminal ==
    /\ [][(IsLoadVariant /\ loadedScript = ModuleRef) =>
            /\ loadedScript' = loadedScript
            /\ importCount' = importCount
            /\ imports' = imports
            /\ \A c \in CallIds :
                  (/\ calls[c].pc = "idle"
                   /\ calls'[c].pc # "idle"
                   /\ calls'[c].req.op \in {"loadedScript", "getObject"}) =>
                     /\ calls'[c].pc \in {"returned", "threw"}
                     /\ calls'[c].req.op = "loadedScript" =>
                            (calls'[c].pc = "returned" /\ calls'[c].res = ModuleRef)
          ]_vars
    /\ [](IsLoadVariant =>
            \A c, d \in CallIds :
                (/\ calls[c].req.op = "getObject" /\ calls[d].req = calls[c].req
                 /\ HasSettled(c) /\ HasSettled(d)
                 /\ calls[c].err # ImportError /\ calls[d].err # ImportError) =>
                    /\ calls[c].pc = calls[d].pc
                    /\ calls[c].res = calls[d].res
                    /\ calls[c].err = calls[d].err)

\* After the load, getObject("obj") was called twice and returned "hello"
\* both times, with one import in all.
C6_Witness ==
    /\ IsLoadVariant
    /\ calls[1].req.op = "loadedScript" /\ calls[1].pc = "returned" /\ calls[1].att = 1
    /\ \A c \in {2, 3} :
          /\ calls[c].req = Request("getObject", "obj", <<>>)
          /\ calls[c].pc = "returned" /\ calls[c].res = "hello"
          /\ calls[c].att = 0 /\ calls[c].seen = 0
    /\ importCount = 1

\* C7 (every variant): a constructor run with a missing or empty identifier
\* has thrown the variant's "not defined" error, and then no call is ever
\* made on an instance and no import is attempted.
C7_EmptyIdentifierRejected ==
    (inst # "new" /\ (ctorArg.missing \/ ctorArg.str = <<>>)) =>
        /\ inst = "threw"
        /\ ctorErr.kind = (IF variant = "lib_path" THEN "Script not defined"
                           ELSE "Script path not defined")
        /\ importCount = 0
        /\ \A a \in ImportIds : imports[a] = "none"
        /\ \A c \in CallIds : calls[c].pc = "idle"

\* new Script("") has thrown.
C7_Witness ==
    /\ inst = "threw"
    /\ ~ctorArg.missing /\ ctorArg.str = <<>>
    /\ ctorErr # NoError

\* C8 (getObject, src/load variants): a getObject(name) call served by the
\* loaded module M has thrown "Object not found" with the script path and
\* the name when M[name] is absent or falsy, and has returned M[name]
\* otherwise.
C8_GetObject ==
    IsLoadVariant =>
        \A c \in CallIds :
            (/\ calls[c].req.op = "getObject"
             /\ calls[c].req.name \notin {Undefined, ""}
             /\ HasSettled(c)
             /\ calls[c].err # ImportError) =>
                LET m == Member(ModuleRef, calls[c].req.name)
                IN  IF m \in {Undefined, "num0", ""}
                    THEN /\ calls[c].pc = "threw"
                         /\ calls[c].err = [kind |-> "Object not found",
                                            path |-> scriptPath,
                                            name |-> calls[c].req.name]
                    ELSE /\ calls[c].pc = "returned"
                         /\ calls[c].res = m
                         /\ calls[c].err = NoError

\* getObject("zero"), a member that is present and falsy, has thrown.
C8_Witness ==
    /\ IsLoadVariant
    /\ loadedScript = ModuleRef
    /\ \E c \in CallIds :
          /\ calls[c].req = Request("getObject", "zero", <<>>)
          /\ calls[c].pc = "threw"
          /\ calls[c].err.kind = "Object not found"

\* C9 (name check, src/load variants): a getObject, getFunction, getClass,
\* callFunction or callNew call with a missing or empty name throws "Object
\* not defined" in the step that makes it, and that step leaves the load
\* state as it was and invokes neither import nor anything else.
C9_NameCheckedBeforeLoad ==
    [][IsLoadVariant =>
        \A c \in CallIds :
            (/\ calls[c].pc = "idle"
             /\ calls'[c].pc # "idle"
             /\ calls'[c].req.op \in
                   {"getObject", "getFunction", "getClass", "callFunction", "callNew"}
             /\ calls'[c].req.name \in {Undefined, ""}) =>
                /\ calls'[c].pc = "threw"
                /\ calls'[c].err = OBJECT_NOT_DEFINED_ERROR
                /\ calls'[c].att = 0 /\ calls'[c].seen = 0 /\ calls'[c].inv = <<>>
                /\ UNCHANGED <<loadingScript, loadedScript, listeners, importCount, imports>>
      ]_vars

\* getObject(undefined) on a fresh instance has thrown and nothing was loaded.
C9_Witness ==
    /\ IsLoadVariant
    /\ calls[1].req = Request("getObject", Undefined, <<>>)
    /\ calls[1].pc = "threw" /\ calls[1].err = OBJECT_NOT_DEFINED_ERROR
    /\ importCount = 0
    /\ loadingScript.state = "undefined"

\* C10 (callFunction, src/load variants): no call invokes more than once; a
\* callFunction(name, args...) call served by the loaded module, where
\* M[name] is a function f, has invoked f once, as a call, with args one by
\* one in their order, and has returned what f returned or thrown what f
\* threw.
C10_CallFunction ==
    IsLoadVariant =>
        \A c \in CallIds :
            /\ Len(calls[c].inv) <= 1
            /\ ~HasSettled(c) => calls[c].inv = <<>>
            /\ (/\ calls[c].req.op = "callFunction"
                /\ calls[c].req.name \notin {Undefined, ""}
                /\ HasSettled(c)
                /\ calls[c].err # ImportError
                /\ TypeOf(Member(ModuleRef, calls[c].req.name)) = "function") =>
                   LET f == Member(ModuleRef, calls[c].req.name)
                       args == [i \in 1..Len(calls[c].req.args) |->
                                   [isArray |-> FALSE, items |-> <<calls[c].req.args[i]>>]]
                       o == Invoke(f, "call", args)
                   IN  /\ calls[c].inv = <<[callee |-> f, how |-> "call", args |-> args]>>
                       /\ calls[c].res = o.val
                       /\ calls[c].err = o.err
                       /\ calls[c].pc = IF o.err = NoError THEN "returned" ELSE "threw"

\* callFunction("first", "x", "y") has returned "x", and
\* callFunction("first", "y", "x") is not what was called.
C10_Witness ==
    /\ IsLoadVariant
    /\ \E c \in CallIds :
          /\ calls[c].req = Request("callFunction", "first", <<"x", "y">>)
          /\ calls[c].pc = "returned"
          /\ calls[c].res = "x"
          /\ Len(calls[c].inv) = 1

\* A call of one of these methods, with a name, that the loaded module served.
Served(c, ops) ==
    /\ calls[c].req.op \in ops
    /\ calls[c].req.name \notin {Undefined, ""}
    /\ HasSettled(c)
    /\ calls[c].err # ImportError
\* The parameters, each an argument of its own, in their order.
ArgsInOrder(parameters) ==
    [i \in 1..Len(parameters) |-> [isArray |-> FALSE, items |-> <<parameters[i]>>]]
NamedError(kind, name) == [kind |-> kind, path |-> scriptPath, name |-> name]

\* C11 (callNew, src/load variants): a callNew(className, args...) call
\* served by the loaded module, where M[className] is a class C, has
\* constructed C once with args one by one in their order, and for Vector,
\* whose constructor stores its first parameter x, the instance has x equal
\* to the first of args.
C11_CallNewPassesArguments ==
    IsLoadVariant =>
        \A c \in CallIds :
            (/\ Served(c, {"callNew"})
             /\ Member(ModuleRef, calls[c].req.name) \in {"cls_Class", "cls_Vector"}) =>
                LET C == Member(ModuleRef, calls[c].req.name)
                    args == calls[c].req.args
                IN  /\ calls[c].pc = "returned"
                    /\ calls[c].inv =
                          <<[callee |-> C, how |-> "new", args |-> ArgsInOrder(args)]>>
                    /\ (C = "cls_Vector" /\ Len(args) >= 1) =>
                          calls[c].res = "Vector{x:" \o args[1] \o "}"

\* C12 (arity check first, src/load/helpers.js): a safeCallFunction,
\* safeCallNew or safeCallObjectMethod call served by the loaded module whose
\* target (the function, the class, the method) declares a number of
\* parameters other than the number of arguments supplied has thrown
\* "Mismatched number of parameters" and has invoked nothing.
C12_ArityCheckedBeforeCall ==
    variant = "load_helpers" =>
        \A c \in CallIds :
            LET req == calls[c].req
                m == Member(ModuleRef, req.name)
                target == IF req.op = "safeCallObjectMethod" THEN Prop(m, req.props[1])
                          ELSE m
                resolves == CASE req.op = "safeCallFunction" -> TypeOf(m) = "function"
                              [] req.op = "safeCallNew" -> m \in {"cls_Class", "cls_Vector"}
                              [] OTHER -> TypeOf(target) = "function"
            IN  (/\ Served(c, {"safeCallFunction", "safeCallNew", "safeCallObjectMethod"})
                 /\ resolves
                 /\ Length(target) # Len(req.args)) =>
                    /\ calls[c].pc = "threw"
                    /\ calls[c].err.kind = "Mismatched number of parameters"
                    /\ calls[c].err.path = scriptPath
                    /\ calls[c].inv = <<>>

\* safeCallFunction("boom") with no argument for the one parameter of boom,
\* safeCallNew("Vector") and safeCallObjectMethod("objMethod", "method", "x")
\* are rejected: one of them has thrown the mismatch without a call of its
\* target.
C12_Witness ==
    /\ variant = "load_helpers"
    /\ loadedScript = ModuleRef
    /\ \E c \in CallIds :
          /\ calls[c].req \in {Request("safeCallFunction", "boom", <<>>),
                                Request("safeCallNew", "Vector", <<>>),
                                PropRequest("safeCallObjectMethod", "objMethod",
                                            <<"method">>, <<"x">>)}
          /\ calls[c].pc = "threw"
          /\ calls[c].err.kind = "Mismatched number of parameters"
          /\ calls[c].inv = <<>>

\* name.p1. ... .pk
RECURSIVE DottedPath(_, _)
DottedPath(name, propertyNames) ==
    IF propertyNames = <<>> THEN name
    ELSE DottedPath(name \o "." \o Head(propertyNames), Tail(propertyNames))
\* value[p1]...[pk]
RECURSIVE ValueAt(_, _)
ValueAt(value, propertyNames) ==
    IF propertyNames = <<>> THEN value
    ELSE ValueAt(Prop(value, Head(propertyNames)), Tail(propertyNames))

\* C13 (getNestedObjectProperty, src/load/helpers.js): a call that has
\* thrown "Property not found" names the dotted path from the object name to
\* the first missing segment, name.p1. ... .pi.
C13_NamesFullDottedPath ==
    variant = "load_helpers" =>
        \A c \in CallIds :
            (/\ Served(c, {"getNestedObjectProperty"})
             /\ calls[c].err.kind = "Property not found") =>
                LET req == calls[c].req
                    m == Member(ModuleRef, req.name)
                IN  \E i \in 1..Len(req.props) :
                        /\ \A j \in 1..(i - 1) :
                              ValueAt(m, SubSeq(req.props, 1, j)) \notin {Undefined, "num0", ""}
                        /\ ValueAt(m, SubSeq(req.props, 1, i)) \in {Undefined, "num0", ""}
                        /\ calls[c].err.name = DottedPath(req.name, SubSeq(req.props, 1, i))

\* C14 as stated (getFunction and callFunction, src/load variants): a member
\* that exists and is not callable is reported as "Object is not a function"
\* with nothing invoked, and an absent member as "Object not found".
C14_ExistingNotCallable ==
    IsLoadVariant =>
        \A c \in CallIds :
            Served(c, {"getFunction", "callFunction"}) =>
                LET m == Member(ModuleRef, calls[c].req.name)
                IN  /\ (m # Undefined /\ TypeOf(m) # "function") =>
                          /\ calls[c].pc = "threw"
                          /\ calls[c].err.kind = "Object is not a function"
                          /\ calls[c].inv = <<>>
                    /\ m = Undefined => calls[c].err.kind = "Object not found"

\* C14 (getFunction and callFunction, src/load variants), amended: a member
\* that is truthy and not callable is reported as "Object is not a function"
\* with the script path and the name, and nothing is invoked; an absent or
\* falsy member is reported as "Object not found", the found-check coming
\* first.
C14_TruthyNotCallable ==
    IsLoadVariant =>
        \A c \in CallIds :
            Served(c, {"getFunction", "callFunction"}) =>
                LET m == Member(ModuleRef, calls[c].req.name)
                IN  /\ (m \notin {Undefined, "num0", ""} /\ TypeOf(m) # "function") =>
                          /\ calls[c].pc = "threw"
                          /\ calls[c].err =
                                NamedError("Object is not a function", calls[c].req.name)
                          /\ calls[c].inv = <<>>
                    /\ m \in {Undefined, "num0", ""} =>
                          /\ calls[c].pc = "threw"
                          /\ calls[c].err = NamedError("Object not found", calls[c].req.name)
                          /\ calls[c].inv = <<>>

\* callFunction("obj", "x"), a string member, has thrown "Object is not a
\* function" and invoked nothing.
C14_Witness ==
    /\ IsLoadVariant
    /\ \E c \in CallIds :
          /\ calls[c].req = Request("callFunction", "obj", <<"x">>)
          /\ calls[c].pc = "threw"
          /\ calls[c].err.kind = "Object is not a function"
          /\ calls[c].inv = <<>>

\* C15 as stated (getClass and callNew, src/load variants): a member that
\* is an ordinary function or a value that is no function is reported as
\* "Object is not a class" and nothing is constructed or invoked; every
\* class is a function and an ordinary function is no class.
C15_NotAClass ==
    IsLoadVariant =>
        /\ \A c \in CallIds :
              Served(c, {"getClass", "callNew"}) =>
                  LET m == Member(ModuleRef, calls[c].req.name)
                  IN  (m # Undefined /\ m \notin {"cls_Class", "cls_Vector"}) =>
                          /\ calls[c].pc = "threw"
                          /\ calls[c].err.kind = "Object is not a class"
                          /\ calls[c].inv = <<>>
        /\ \A n \in {"obj", "zero", "func", "first", "boom", "Class", "Vector", "missing"} :
              /\ isClass(Member(ModuleRef, n)) => isFunction(Member(ModuleRef, n))
              /\ Member(ModuleRef, n) \in {"fn_func", "fn_first", "fn_boom"} =>
                    /\ isFunction(Member(ModuleRef, n))
                    /\ ~isClass(Member(ModuleRef, n))

\* C15 (getClass and callNew, src/load variants), amended: a truthy member
\* that is an ordinary function or no function is reported as "Object is
\* not a class" with the script path and the name, and nothing is
\* constructed or invoked; a falsy member is reported as "Object not
\* found"; every class is a function and an ordinary function is no class.
C15_TruthyNotAClass ==
    IsLoadVariant =>
        /\ \A c \in CallIds :
              Served(c, {"getClass", "callNew"}) =>
                  LET m == Member(ModuleRef, calls[c].req.name)
                  IN  /\ (m \notin {Undefined, "num0", "", "cls_Class", "cls_Vector"}) =>
                            /\ calls[c].pc = "threw"
                            /\ calls[c].err =
                                  NamedError("Object is not a class", calls[c].req.name)
                            /\ calls[c].inv = <<>>
                      /\ m \in {Undefined, "num0", ""} =>
                            /\ calls[c].pc = "threw"
                            /\ calls[c].err.kind = "Object not found"
                            /\ calls[c].inv = <<>>
        /\ \A n \in {"obj", "zero", "func", "first", "boom", "Class", "Vector", "missing"} :
              LET m == Member(ModuleRef, n)
              IN  /\ (m \in {"cls_Class", "cls_Vector"}) => TypeOf(m) = "function"
                  /\ m \in {"fn_func", "fn_first", "fn_boom"} => TypeOf(m) = "function"

\* callNew("func"), an ordinary function, has thrown "Object is not a class"
\* and nothing was constructed.
C15_Witness ==
    /\ IsLoadVariant
    /\ \E c \in CallIds :
          /\ calls[c].req = Request("callNew", "func", <<>>)
          /\ calls[c].pc = "threw"
          /\ calls[c].err.kind = "Object is not a class"
          /\ calls[c].inv = <<>>

\* C16 (callObjectMethod, both src/load variants): a call served by the
\* loaded module whose object resolves has thrown "Object is not a function"
\* naming objectName.methodName, with nothing invoked, when the property is
\* absent, falsy or no function, and has otherwise returned what the method
\* returns for args; the outcome is of the kind the other variant gives.
C16_CallObjectMethod ==
    IsLoadVariant =>
        \A c \in CallIds :
            (/\ Served(c, {"callObjectMethod"})
             /\ Member(ModuleRef, calls[c].req.name) \notin {Undefined, "num0", ""}) =>
                LET req == calls[c].req
                    method == Prop(Member(ModuleRef, req.name), req.props[1])
                    other == IF variant = "load_script" THEN "load_helpers" ELSE "load_script"
                    o == Invoke(method, "call", ArgsInOrder(req.args))
                IN  /\ IF TypeOf(method) # "function"
                       THEN /\ calls[c].pc = "threw"
                            /\ calls[c].err =
                                  NamedError("Object is not a function",
                                             req.name \o "." \o req.props[1])
                            /\ calls[c].inv = <<>>
                       ELSE /\ calls[c].res = o.val
                            /\ calls[c].err = o.err
                            /\ Len(calls[c].inv) = 1
                    /\ calls[c].err.kind =
                          callObjectMethod(other, ModuleRef, scriptPath, req.name,
                                           req.props[1], req.args).out.err.kind

\* C17 (waiters, src/load variants): once a load attempt has settled, no
\* call that started waiting during it is still registered or still
\* suspended, and a waiter that has been woken was woken by the success of
\* the attempt it waited for.
C17_WaitersDrainedPerAttempt ==
    IsLoadVariant =>
        \A c \in CallIds :
            calls[c].seen \in ImportIds =>
                /\ imports[calls[c].seen] \in {"fulfilled", "rejected"} =>
                      /\ c \notin listeners
                      /\ calls[c].pc # "waiting"
                /\ calls[c].pc \in {"woken", "returned"} =>
                      imports[calls[c].seen] = "fulfilled"

\* C18 as stated (load failure, src/load variants): the call that started
\* an import that failed has thrown an error of kind LoadFailed that
\* carries the script path.
C18_InitiatorGetsLoadFailed ==
    IsLoadVariant =>
        \A c \in CallIds :
            (/\ calls[c].att \in ImportIds
             /\ imports[calls[c].att] = "rejected"
             /\ HasSettled(c)) =>
                /\ calls[c].pc = "threw"
                /\ calls[c].err.kind = "LoadFailed"
                /\ calls[c].err.path = scriptPath

\* C18 (load failure, src/load variants), amended: the call that started
\* an import that failed has thrown the import's own error, as it is: not
\* wrapped, and without the script path added.
C18_InitiatorGetsImportError ==
    IsLoadVariant =>
        \A c \in CallIds :
            (/\ calls[c].att \in ImportIds
             /\ imports[calls[c].att] = "rejected"
             /\ HasSettled(c)) =>
                /\ calls[c].pc = "threw"
                /\ calls[c].err = [kind |-> "import failed", path |-> <<>>, name |-> ""]
                /\ calls[c].inv = <<>>

\* The first call started an import, the import failed and the call threw.
C18_Witness ==
    /\ IsLoadVariant
    /\ calls[1].att = 1
    /\ imports[1] = "rejected"
    /\ calls[1].pc = "threw"
    /\ calls[1].err.kind = "import failed"

\* C19 (identifier, src/lib/path/script.js): whatever removeNestedModule(),
\* fullPath and loadedScript() operations were made, the memoized full path
\* and the specifier of every import are the path of the constructor's
\* arguments: the modules and the script name joined with "/".
C19_IdentifierImmutable ==
    variant = "lib_path" =>
        LET constructed == ComputedFullPath(ctorModules, scriptPath)
        IN  /\ fullPath # <<>> => fullPath = constructed
            /\ \A a \in ImportIds : importPath[a] # <<>> => importPath[a] = constructed

\* C20 (getClassMethods, src/load/script.js): a getClassMethods("Class")
\* call on a module that exports the class Class, once settled and not
\* failed by the import, has returned.
C20_GetClassMethodsCompletes ==
    variant = "load_script" =>
        \A c \in CallIds :
            (/\ calls[c].req.op = "getClassMethods"
             /\ Member(ModuleRef, calls[c].req.name) \in {"cls_Class", "cls_Vector"}
             /\ HasSettled(c)
             /\ calls[c].err # ImportError) =>
                /\ calls[c].pc = "returned"
                /\ calls[c].err = NoError

\* C21 (getNestedObjectProperty, src/load/helpers.js): a call served by the
\* loaded module whose object resolves has returned M[name][p1]...[pk] after
\* reading p1..pk when every segment is truthy (with no segment: M[name],
\* what getObject(name) returns), and has otherwise thrown "Property not
\* found" after reading p1..pi, pi being the first missing segment, and no
\* segment after it.
C21_SequentialProjection ==
    variant = "load_helpers" =>
        \A c \in CallIds :
            (/\ Served(c, {"getNestedObjectProperty"})
             /\ Member(ModuleRef, calls[c].req.name) \notin {Undefined, "num0", ""}) =>
                LET req == calls[c].req
                    m == Member(ModuleRef, req.name)
                    missing == {i \in 1..Len(req.props) :
                                    ValueAt(m, SubSeq(req.props, 1, i))
                                        \in {Undefined, "num0", ""}}
                IN  IF missing = {}
                    THEN /\ calls[c].pc = "returned"
                         /\ calls[c].res = ValueAt(m, req.props)
                         /\ calls[c].reads = req.props
                         /\ req.props = <<>> =>
                               calls[c].res = getObject(ModuleRef, scriptPath, req.name).val
                    ELSE LET first == CHOOSE i \in missing : \A j \in missing : i <= j
                         IN  /\ calls[c].pc = "threw"
                             /\ calls[c].err.kind = "Property not found"
                             /\ calls[c].reads = SubSeq(req.props, 1, first)

\* getNestedObjectProperty("a", "c", "b"), where a.c is missing and a.b is
\* not, has thrown after reading c only.
C21_Witness ==
    /\ variant = "load_helpers"
    /\ \E c \in CallIds :
          /\ calls[c].req = PropRequest("getNestedObjectProperty", "a", <<"c", "b">>, <<>>)
          /\ calls[c].pc = "threw"
          /\ calls[c].err.kind = "Property not found"
          /\ calls[c].reads = <<"c">>

\* C22 (nested-module queue, src/lib/path/script.js): for a Script
\* constructed with modules m1..mn, after k removeNestedModule() calls the
\* list is m(k+1)..mn, a hasNestedModule() call returns true iff k < n, a
\* nestedModule read returns m(k+1) when k < n and null otherwise, and a
\* removeNestedModule() call on an empty list returns, leaves the list empty
\* and changes neither the load state nor the paths nor any call.
C22_NestedModuleQueue ==
    [][variant = "lib_path" =>
        LET n == Len(ctorModules)
            k == removed'
        IN  /\ nestedModules'.defined
            /\ nestedModules'.list = [i \in 1..(IF k < n THEN n - k ELSE 0) |->
                                         ctorModules[k + i]]
            /\ (moduleOp' # moduleOp /\ moduleOp'.op = "hasNestedModule") =>
                  /\ removed' = removed
                  /\ moduleOp'.out = [val |-> IF k < n THEN "true" ELSE "false",
                                      err |-> NoError]
            /\ (moduleOp' # moduleOp /\ moduleOp'.op = "nestedModule") =>
                  /\ removed' = removed
                  /\ moduleOp'.out.err = NoError
                  /\ IF k < n
                     THEN moduleOp'.out.val = "module" /\ moduleOp'.mod = ctorModules[k + 1]
                     ELSE moduleOp'.out.val = "null"
            /\ (removed' = removed + 1 /\ nestedModules.list = <<>>) =>
                  /\ nestedModules' = nestedModules
                  /\ moduleOp'.out.err = NoError
                  /\ UNCHANGED <<loadingScript, loadedScript, listeners, importCount,
                                 imports, calls, fullPath, importPath, scriptPath>>
      ]_vars

\* A Script constructed with two modules, after one removeNestedModule():
\* nestedModule has returned the second module.
C22_Witness ==
    /\ variant = "lib_path"
    /\ Len(ctorModules) = 2
    /\ removed = 1
    /\ moduleOp.op = "nestedModule"
    /\ moduleOp.out.val = "module"
    /\ moduleOp.mod = ctorModules[2]

\* C23 (src/path/script.js, no nested modules): a hasNestedModule() call
\* has returned false, a nestedModule read has returned null and a
\* removeNestedModule() call has completed without error, whenever made.
C23_NoNestedModules ==
    variant = "path" =>
        /\ moduleOp.out.err = NoError
        /\ moduleOp.op = "hasNestedModule" => moduleOp.out.val = "false"
        /\ moduleOp.op = "nestedModule" => moduleOp.out.val = "null"

====
